---- MODULE Spec2Model ----
(***************************************************************************)
(* A model of spectral/algorithms/classifiers.py: the training and the     *)
(* classification paths of GaussianClassifier and                          *)
(* MahalanobisDistanceClassifier, and the default per-pixel                *)
(* Classifier.classify_image loop.                                         *)
(*                                                                         *)
(* Numbers.  The source works on floats; the model works on integers.      *)
(*   - Class covariances have determinant 1, so that inv_cov is an integer *)
(*     matrix and log_det_cov = log(1) = 0.                                *)
(*   - A Gaussian score is carried as 2 * prob (the factor 0.5 of the      *)
(*     source is cleared); the class attribute class_prob is carried as    *)
(*     log_class_prob2 = 2 * log(class_prob).                              *)
(*   - background.inv_cov is carried as det(cov) * inv_cov, the adjugate   *)
(*     of background.cov, so a squared distance is carried as              *)
(*     det(cov) * d2.  det(cov) > 0 is the same for every class of one     *)
(*     classifier, so every comparison d2 < d2_min is unchanged.           *)
(* Python's None is the empty sequence <<>>, a value v that may be None is *)
(* <<v>>.                                                                  *)
(***************************************************************************)
EXTENDS Integers, Sequences, FiniteSets, TLC

\* ------------------------------------------------------------- bounds
\* Longest training set (number of training classes passed to train).
MaxClasses == 2
\* Band values of a spectrum are 0..MaxPixelValue.
MaxPixelValue == 2

\* ---------------------------------------------------- program constants
\* The divisor of the progress increment, N / 100.
PercentSteps == 100

None == <<>>
Some(v) == <<v>>

BandCounts == {1, 2}

\* ------------------------------------------------------------ linear algebra
RECURSIVE SumSeq(_)
SumSeq(s) == IF s = <<>> THEN 0 ELSE Head(s) + SumSeq(Tail(s))

\* numpy.dot of two vectors
Dot(u, v) == SumSeq([j \in 1..Len(u) |-> u[j] * v[j]])

\* x - mean
Sub(x, mean) == [j \in 1..Len(x) |-> x[j] - mean[j]]

\* dot(m, delta): matrix times column vector
MatVec(m, d) == [r \in 1..Len(m) |-> Dot(m[r], d)]

\* delta.dot(m): row vector times matrix
VecMat(d, m) == [c \in 1..Len(d) |-> SumSeq([r \in 1..Len(d) |-> d[r] * m[r][c]])]

\* n * cov
Scale(n, m) == [r \in 1..Len(m) |-> [c \in 1..Len(m) |-> n * m[r][c]]]

\* covariance += m
MatAdd(a, m) == [r \in 1..Len(a) |-> [c \in 1..Len(a) |-> a[r][c] + m[r][c]]]

\* numpy.zeros(shape)
Zeros(b) == [r \in 1..b |-> [c \in 1..b |-> 0]]

\* The adjugate of a 1x1 or 2x2 matrix: det(m) * inverse(m).
Adj(m) ==
  IF Len(m) = 1 THEN << <<1>> >>
  ELSE << <<m[2][2], -m[1][2]>>, <<-m[2][1], m[1][1]>> >>

\* ------------------------------------------------------------ training data
\* TrainingClass.size(): the number of samples of the class with index k.
SizeOf(k) == ((2 * k) % 3) + 1

MeanOf(b, k) == [j \in 1..b |-> IF k % 2 = 1 THEN 0 ELSE 2]

CovOf(b, k) ==
  IF b = 2 /\ k % 3 = 0 THEN << <<2, 1>>, <<1, 1>> >>
  ELSE [r \in 1..b |-> [c \in 1..b |-> IF r = c THEN 1 ELSE 0]]

\* The statistics routine: TrainingClass.calc_stats() of the class (b, k).
StatsOf(b, k) ==
  [mean |-> MeanOf(b, k), cov |-> CovOf(b, k), inv_cov |-> Adj(CovOf(b, k)),
   log_det_cov |-> 0, nsamples |-> SizeOf(k)]

\* A training class whose statistics are not computed yet.
TrainingClass(b, k) ==
  [index |-> k, nbands |-> b, size |-> SizeOf(k),
   log_class_prob2 |-> 0 - (k \div 3), stats |-> None]

\* cl.calc_stats() when cl has no stats attribute
CalcStats(cl) ==
  IF cl.stats = None THEN [cl EXCEPT !.stats = Some(StatsOf(cl.nbands, cl.index))]
  ELSE cl

\* The indices of the training classes there are.
ClassIds == {1, 2, 3}

\* Sequences of distinct class indices, at most MaxClasses long.
IdSeqs ==
  UNION {{q \in [1..n -> ClassIds] : \A i, j \in 1..n : i # j => q[i] # q[j]}
         : n \in 0..MaxClasses}

\* The TrainingClassSet values passed to train, in iteration order.
TrainingSets ==
  {[nbands |-> b, classes |-> [i \in 1..Len(q) |-> TrainingClass(b, q[i])]]
   : b \in BandCounts, q \in IdSeqs}

NoTraining == [nbands |-> 1, classes |-> <<>>]

\* ------------------------------------------------------------ spectra, images
\* The spectra given to classify_spectrum: every band at one value v, and the
\* bands at v + 1, v + 2, ... (wrapping round)
Spectra(b) ==
  {[j \in 1..b |-> (v + s * j) % (MaxPixelValue + 1)] : v \in 0..MaxPixelValue, s \in {0, 1}}

\* Image shapes (rows, cols): 1, 6 and 99 pixels, below the 100 of the progress
\* increment, and 100 pixels.
ImageShapes == {<<1, 1>>, <<2, 3>>, <<9, 11>>, <<10, 10>>}

Images(b) == {[rows |-> s[1], cols |-> s[2], nbands |-> b] : s \in ImageShapes}

NoImage == [rows |-> 0, cols |-> 0, nbands |-> 1]

\* image[r, c]; rows and columns are counted from 1 here, from 0 in the source
PixelAt(image, r, c) ==
  [j \in 1..image.nbands |-> ((r - 1) * j + (c - 1)) % (MaxPixelValue + 1)]

\* The (row, col) positions of image.shape[:2]
Positions(image) == (1..image.rows) \X (1..image.cols)

\* ImageIterator.get_num_elements()
NumElements(image) == image.rows * image.cols

\* ------------------------------------------------------------ GaussianClassifier
\* __init__: self.min_samples from the min_samples argument
InitMinSamples(arg) == IF arg # None /\ arg # Some(0) THEN arg ELSE None

\* A variant of ResolveMinSamples that takes the band count at every call.
ResolveMinSamplesAlways(ms, td) == Some(td.nbands)

\* train: "if not self.min_samples: self.min_samples = training_data.nbands"
ResolveMinSamples(ms, td) ==
  IF ms = None \/ ms = Some(0) THEN Some(td.nbands) ELSE ms

\* A variant of Retained with a strict comparison.
RetainedStrict(cl, ms) == cl.size > ms

\* train: "if cl.size() >= self.min_samples"
Retained(cl, ms) == cl.size >= ms

\* train: self.classes after the two loops
GaussianTrainClasses(td, ms) ==
  LET kept == SelectSeq(td.classes, LAMBDA cl : Retained(cl, ms))
  IN [i \in 1..Len(kept) |-> CalcStats(kept[i])]

\* The initial max_prob of classify_spectrum (-100000000000. in the source, cut
\* to fit a 32-bit integer); "first" keeps it from ever being compared.
MaxProbInit == -1000000000

\* classify_spectrum: 2 * prob of spectrum x for class cl
GProb2(cl, x) ==
  LET st == cl.stats[1]
      delta == Sub(x, st.mean)
  IN cl.log_class_prob2 - st.log_det_cov - Dot(delta, MatVec(st.inv_cov, delta))

\* A variant of GBetter in which a later class takes a tie.
GBetterOrEqual(prob, max_prob) == prob >= max_prob

\* classify_spectrum: "prob[0, 0] > max_prob"
GBetter(prob, max_prob) == prob > max_prob

\* classify_spectrum: the loop over self.classes from class i on
RECURSIVE GScan(_, _, _, _, _, _)
GScan(classes, x, i, first, max_prob, max_class) ==
  IF i > Len(classes) THEN max_class
  ELSE LET prob == GProb2(classes[i], x)
       IN IF first \/ GBetter(prob, max_prob)
          THEN GScan(classes, x, i + 1, FALSE, prob, classes[i].index)
          ELSE GScan(classes, x, i + 1, first, max_prob, max_class)

GaussianClassifySpectrum(classes, x) == GScan(classes, x, 1, TRUE, MaxProbInit, -1)

\* numpy.argmax over one row of scores: the first position of the maximum
ArgMax(row) ==
  CHOOSE i \in 1..Len(row) :
    /\ \A j \in 1..Len(row) : row[j] <= row[i]
    /\ \A j \in 1..(i - 1) : row[j] < row[i]

\* numpy.argmin over one row of scores: the first position of the minimum
ArgMin(row) ==
  CHOOSE i \in 1..Len(row) :
    /\ \A j \in 1..Len(row) : row[j] >= row[i]
    /\ \A j \in 1..(i - 1) : row[j] > row[i]

\* A variant of IndexLookup that returns numpy's position (from 0) itself.
IndexLookupPosition(classes, pos) == pos - 1

\* inds[mins]: the class index at a position of self.classes
IndexLookup(classes, pos) == classes[pos].index

\* classify_image, batched: 2 * scores[p, i]
GScore2Batched(cl, pixel) ==
  LET st == cl.stats[1]
      scalar == cl.log_class_prob2 - st.log_det_cov
      delta == Sub(pixel, st.mean)
      Y == VecMat(delta, st.inv_cov)
  IN (0 - Dot(Y, delta)) + scalar

NoMap == <<>>

\* classify_image with cache_class_scores true
GaussianClassifyImageBatched(classes, image) ==
  IF classes = <<>>
  THEN [err |-> "ValueError", map |-> NoMap, calls |-> 0]
  ELSE [err |-> "none",
        map |-> [r \in 1..image.rows |-> [c \in 1..image.cols |->
                   IndexLookup(classes,
                     ArgMax([i \in 1..Len(classes) |->
                               GScore2Batched(classes[i], PixelAt(image, r, c))]))]],
        calls |-> 0]

\* ------------------------------------------------------------ MahalanobisDistanceClassifier
\* train: the loop "covariance += cl.stats.nsamples * cl.stats.cov" from class i on
RECURSIVE PoolFrom(_, _, _)
PoolFrom(classes, i, covariance) ==
  IF i > Len(classes) THEN covariance
  ELSE PoolFrom(classes, i + 1,
         MatAdd(covariance, Scale(classes[i].stats[1].nsamples, classes[i].stats[1].cov)))

\* train: the covariance handed to GaussianStats(cov=covariance)
PooledCov(classes) == PoolFrom(classes, 1, Zeros(Len(classes[1].stats[1].cov)))

\* GaussianStats(cov=covariance): a statistics record without a mean; its
\* inv_cov is carried times det(cov)
GaussianStats(covariance) ==
  [cov |-> covariance, inv_cov |-> Adj(covariance), mean |-> None]

\* self.background.inv_cov (times det(background.cov))
BackgroundInvCov(bg) == bg.inv_cov

\* classify_spectrum: det(background.cov) * d2
MDist2(bg, cl, x) ==
  LET delta == Sub(x, cl.stats[1].mean)
  IN Dot(delta, MatVec(BackgroundInvCov(bg), delta))

\* classify_spectrum: "d2 < d2_min"
MDBetter(d2, d2_min) == d2 < d2_min

\* classify_spectrum: the loop over self.classes from class i on
RECURSIVE MDScan(_, _, _, _, _, _, _)
MDScan(classes, bg, x, i, first, d2_min, max_class) ==
  IF i > Len(classes) THEN max_class
  ELSE LET d2 == MDist2(bg[1], classes[i], x)
       IN IF first \/ MDBetter(d2, d2_min)
          THEN MDScan(classes, bg, x, i + 1, FALSE, d2, classes[i].index)
          ELSE MDScan(classes, bg, x, i + 1, first, d2_min, max_class)

MDClassifySpectrum(classes, bg, x) == MDScan(classes, bg, x, 1, TRUE, -1, -1)

\* A variant of AssignMean that sets the mean only while it is unset.
AssignMeanOnce(bg, c) ==
  IF bg.mean = None THEN [bg EXCEPT !.mean = Some(c.stats[1].mean)] ELSE bg

\* classify_image, batched: "self.background.mean = c.stats.mean"
AssignMean(bg, c) == [bg EXCEPT !.mean = Some(c.stats[1].mean)]

\* RX: the detector's score of every pixel against the background it was given
\* (times det(background.cov))
Rx(bg, image) ==
  [r \in 1..image.rows |-> [c \in 1..image.cols |->
     LET delta == Sub(PixelAt(image, r, c), bg.mean[1])
     IN Dot(delta, MatVec(BackgroundInvCov(bg), delta))]]

\* classify_image, batched: the loop over self.classes from class i on; st holds
\* self.background and the score layers computed so far
RECURSIVE MDLayersFrom(_, _, _, _)
MDLayersFrom(classes, image, i, st) ==
  IF i > Len(classes) THEN st
  ELSE LET bg2 == AssignMean(st.bg, classes[i])
       IN MDLayersFrom(classes, image, i + 1,
            [bg |-> bg2, scores |-> Append(st.scores, Rx(bg2, image))])

\* classify_image, batched: inds[argmin(scores, axis=-1)]
MDPickClasses(classes, image, scores) ==
  [r \in 1..image.rows |-> [c \in 1..image.cols |->
     IndexLookup(classes, ArgMin([i \in 1..Len(classes) |-> scores[i][r][c]]))]]

\* classify_image, batched: self.background after the passes of the loop from
\* class i on
RECURSIVE AssignFrom(_, _, _)
AssignFrom(classes, i, bg) ==
  IF i > Len(classes) THEN bg
  ELSE AssignFrom(classes, i + 1, AssignMean(bg, classes[i]))

\* A variant of BackgroundAfterBatched that leaves a fresh statistics record with
\* the last mean and an empty covariance.
BackgroundAfterBatchedFresh(classes, bg) ==
  IF classes = <<>> THEN bg
  ELSE Some([cov |-> Zeros(Len(bg[1].cov)), inv_cov |-> bg[1].inv_cov,
             mean |-> Some(classes[Len(classes)].stats[1].mean)])

\* self.background after a batched classify_image
BackgroundAfterBatched(classes, bg) ==
  IF classes = <<>> THEN bg ELSE Some(AssignFrom(classes, 1, bg[1]))

\* classify_image with cache_class_scores true
MDClassifyImageBatched(classes, bg, image) ==
  IF classes = <<>>
  THEN [err |-> "ValueError", map |-> NoMap, calls |-> 0]
  ELSE [err |-> "none",
        map |-> MDPickClasses(classes, image,
                  MDLayersFrom(classes, image, 1, [bg |-> bg[1], scores |-> <<>>]).scores),
        calls |-> 0]

\* ------------------------------------------------------------ Classifier
\* self.classify_spectrum(spectrum) of the object's class
ClassifySpectrumOf(kind, classes, bg, x) ==
  IF kind = "Gaussian" THEN GaussianClassifySpectrum(classes, x)
  ELSE MDClassifySpectrum(classes, bg, x)

\* classify_image: "i, inc = (0, N / 100)", an integer division
ProgressInc(N) == N \div PercentSteps

\* classify_image: one pass of the body of "for spectrum in it", at position
\* (r, c), from the loop state st = [err, i, map]; "not i % inc" divides by
\* zero when inc = 0
LoopBody(kind, classes, bg, image, inc, st, r, c) ==
  LET lab == ClassifySpectrumOf(kind, classes, bg, PixelAt(image, r, c))
  IN IF inc = 0
     THEN [err |-> "ZeroDivisionError", i |-> st.i + 1, map |-> NoMap]
     ELSE [err |-> "none", i |-> st.i + 1,
           map |-> [st.map EXCEPT ![r][c] = lab]]

\* ImageIterator: the columns of row r from column c on; an exception ends the loop
RECURSIVE LoopCols(_, _, _, _, _, _, _, _)
LoopCols(kind, classes, bg, image, inc, st, r, c) ==
  IF c > image.cols THEN st
  ELSE LET st2 == LoopBody(kind, classes, bg, image, inc, st, r, c)
       IN IF st2.err # "none" THEN st2
          ELSE LoopCols(kind, classes, bg, image, inc, st2, r, c + 1)

\* ImageIterator: the rows from row r on
RECURSIVE LoopRows(_, _, _, _, _, _, _)
LoopRows(kind, classes, bg, image, inc, st, r) ==
  IF r > image.rows THEN st
  ELSE LET st2 == LoopCols(kind, classes, bg, image, inc, st, r, 1)
       IN IF st2.err # "none" THEN st2
          ELSE LoopRows(kind, classes, bg, image, inc, st2, r + 1)

\* Classifier.classify_image, the per-pixel loop; i counts the calls of
\* classify_spectrum
ClassifyImageLoop(kind, classes, bg, image) ==
  LET st == LoopRows(kind, classes, bg, image, ProgressInc(NumElements(image)),
                     [err |-> "none", i |-> 0,
                      map |-> [r \in 1..image.rows |-> [c \in 1..image.cols |-> 0]]],
                     1)
  IN [err |-> st.err, map |-> st.map, calls |-> st.i]

\* classify_image of the object's class
ClassifyImageOf(kind, cache, classes, bg, image) ==
  IF ~cache THEN ClassifyImageLoop(kind, classes, bg, image)
  ELSE IF kind = "Gaussian" THEN GaussianClassifyImageBatched(classes, image)
  ELSE MDClassifyImageBatched(classes, bg, image)

\* ------------------------------------------------------------ state
VARIABLES
  kind,                \* the class of the object: "Gaussian" or "Mahalanobis"
  supplied,            \* the min_samples argument of the constructor
  min_samples,         \* self.min_samples
  trained,             \* self.classes exists: train has been called
  classes,             \* self.classes
  background,          \* self.background: None, or [cov, inv_cov, mean]
  cache_class_scores,  \* self.cache_class_scores
  training,            \* the training data of the latest train call
  first_nbands,        \* the band count of the first train call, or None
  \* The latest operation and what it was given and returned; what it did not
  \* use keeps its initial value.
  op,                  \* its name
  path,                \* classify_image: the path taken, "batched" or "loop"
  err,                 \* the exception it raised, or "none"
  image,               \* classify_image: the image
  spectrum,            \* classify_spectrum: the spectrum
  label,               \* classify_spectrum: the returned class index
  class_map,           \* classify_image: the returned class map
  ncalls,              \* classify_image: the calls of classify_spectrum it made
  pc,                  \* where each concurrent batched classify_image stands
  timg,                \* its image
  ti,                  \* its position in self.classes
  tscores,             \* its local scores, one layer per class done
  tresult,             \* its returned class map
  overlapped           \* another call was running at some moment of this call

object == <<kind, supplied, min_samples, trained, classes, background,
            cache_class_scores, training, first_nbands>>
latest == <<op, path, err, image, spectrum, label, class_map, ncalls>>
threads == <<pc, timg, ti, tscores, tresult, overlapped>>
vars == <<object, latest, threads>>

Threads == {1, 2}

Kinds == {"Gaussian", "Mahalanobis"}

\* The min_samples arguments tried: none, 0, and 2, which keeps the classes of
\* two and three samples and drops the class of one.
SuppliedValues == {None, Some(0), Some(2)}

\* The state after GaussianClassifier(min_samples=arg) or
\* MahalanobisDistanceClassifier(min_samples=arg), without training data.
Init ==
  /\ kind \in Kinds
  /\ supplied \in SuppliedValues
  /\ min_samples = InitMinSamples(supplied)
  /\ trained = FALSE
  /\ classes = <<>>
  /\ background = None
  /\ cache_class_scores = TRUE
  /\ training = NoTraining
  /\ first_nbands = None
  /\ op = "init"
  /\ path = "none"
  /\ err = "none"
  /\ image = NoImage
  /\ spectrum = <<>>
  /\ label = -1
  /\ class_map = NoMap
  /\ ncalls = 0
  /\ pc = [t \in Threads |-> "idle"]
  /\ timg = [t \in Threads |-> NoImage]
  /\ ti = [t \in Threads |-> 0]
  /\ tscores = [t \in Threads |-> <<>>]
  /\ tresult = [t \in Threads |-> NoMap]
  /\ overlapped = [t \in Threads |-> FALSE]

Idle == \A t \in Threads : pc[t] = "idle"

\* The call of thread t is between its first and its last statement.
Running(t) == pc[t] \in {"assign", "rx"}

\* train(td): GaussianClassifier.train, followed for a
\* MahalanobisDistanceClassifier by the pooling of the background; there
\* self.classes[0] raises IndexError when no class was retained, after
\* self.min_samples and self.classes were assigned.
Train(td) ==
  LET ms == ResolveMinSamples(min_samples, td)
      cls == GaussianTrainClasses(td, ms[1])
  IN /\ Idle
     /\ min_samples' = ms
     /\ classes' = cls
     /\ trained' = TRUE
     /\ training' = td
     /\ first_nbands' = IF first_nbands = None THEN Some(td.nbands) ELSE first_nbands
     /\ IF kind = "Mahalanobis" /\ cls = <<>>
        THEN err' = "IndexError" /\ background' = background
        ELSE /\ err' = "none"
             /\ background' = IF kind = "Mahalanobis"
                              THEN Some(GaussianStats(PooledCov(cls)))
                              ELSE background
     /\ op' = "train"
     /\ path' = "none"
     /\ image' = NoImage
     /\ spectrum' = <<>>
     /\ label' = -1
     /\ class_map' = NoMap
     /\ ncalls' = 0
     /\ UNCHANGED <<kind, supplied, cache_class_scores, threads>>

\* classify_spectrum(x) on a trained classifier, x of the trained band count
ClassifySpectrum(x) ==
  /\ Idle
  /\ trained
  /\ Len(x) = training.nbands
  /\ label' = ClassifySpectrumOf(kind, classes, background, x)
  /\ spectrum' = x
  /\ op' = "classify_spectrum"
  /\ path' = "none"
  /\ err' = "none"
  /\ image' = NoImage
  /\ class_map' = NoMap
  /\ ncalls' = 0
  /\ UNCHANGED <<object, threads>>

\* classify_image(img) on a trained classifier, img of the trained band count
ClassifyImage(img) ==
  /\ Idle
  /\ trained
  /\ img.nbands = training.nbands
  /\ \E r \in {ClassifyImageOf(kind, cache_class_scores, classes, background, img)} :
       /\ err' = r.err
       /\ class_map' = r.map
       /\ ncalls' = r.calls
  /\ image' = img
  /\ op' = "classify_image"
  /\ path' = IF cache_class_scores THEN "batched" ELSE "loop"
  /\ background' = IF cache_class_scores /\ kind = "Mahalanobis"
                   THEN BackgroundAfterBatched(classes, background)
                   ELSE background
  /\ spectrum' = <<>>
  /\ label' = -1
  /\ UNCHANGED <<kind, supplied, min_samples, trained, classes,
                 cache_class_scores, training, first_nbands, threads>>

\* The caller sets cache_class_scores.
SetCacheClassScores(b) ==
  /\ Idle
  /\ cache_class_scores # b
  /\ cache_class_scores' = b
  /\ op' = "set_cache_class_scores"
  /\ path' = "none"
  /\ err' = "none"
  /\ image' = NoImage
  /\ spectrum' = <<>>
  /\ label' = -1
  /\ class_map' = NoMap
  /\ ncalls' = 0
  /\ UNCHANGED <<kind, supplied, min_samples, trained, classes, background,
                 training, first_nbands, threads>>

Next ==
  \/ \E td \in TrainingSets : Train(td)
  \/ \E b \in BandCounts : \E x \in Spectra(b) : ClassifySpectrum(x)
  \/ \E b \in BandCounts : \E img \in Images(b) : ClassifyImage(img)
  \/ \E b \in BOOLEAN : SetCacheClassScores(b)

Spec == Init /\ [][Next]_vars

\* ------------------------------------------------------------ concurrent calls
\* Two threads call the batched MahalanobisDistanceClassifier.classify_image on
\* one trained classifier.  scores, rx, inds and mins are local to a call;
\* self.background is shared.  A call is cut at its reads and writes of
\* self.background: the assignment of background.mean, and rx(image), which reads
\* the background rx was given.

\* The images of the concurrent calls: the small ones.
ThreadImages(b) == {img \in Images(b) : NumElements(img) <= 6}

\* A call of classify_image(img) begins: scores is allocated.
Start(t, img) ==
  /\ pc[t] = "idle"
  /\ trained
  /\ kind = "Mahalanobis"
  /\ cache_class_scores
  /\ classes # <<>>
  /\ img.nbands = training.nbands
  /\ pc' = [pc EXCEPT ![t] = "assign"]
  /\ timg' = [timg EXCEPT ![t] = img]
  /\ ti' = [ti EXCEPT ![t] = 1]
  /\ tscores' = [tscores EXCEPT ![t] = <<>>]
  /\ tresult' = [tresult EXCEPT ![t] = NoMap]
  /\ overlapped' = [u \in Threads |->
                      IF u = t THEN \E v \in Threads \ {t} : Running(v)
                      ELSE overlapped[u] \/ Running(u)]
  /\ UNCHANGED <<object, latest>>

\* "self.background.mean = c.stats.mean" for the class c at position ti
Assign(t) ==
  /\ pc[t] = "assign"
  /\ ti[t] <= Len(classes)
  /\ background' = Some(AssignMean(background[1], classes[ti[t]]))
  /\ pc' = [pc EXCEPT ![t] = "rx"]
  /\ UNCHANGED <<kind, supplied, min_samples, trained, classes, cache_class_scores,
                 training, first_nbands, latest, timg, ti, tscores, tresult,
                 overlapped>>

\* "rx.set_background(self.background); scores[:, :, i] = rx(image)"
Score(t) ==
  /\ pc[t] = "rx"
  /\ tscores' = [tscores EXCEPT ![t] = Append(@, Rx(background[1], timg[t]))]
  /\ ti' = [ti EXCEPT ![t] = @ + 1]
  /\ pc' = [pc EXCEPT ![t] = "assign"]
  /\ UNCHANGED <<object, latest, timg, tresult, overlapped>>

\* The loop is over: "return inds[mins]"
Pick(t) ==
  /\ pc[t] = "assign"
  /\ ti[t] > Len(classes)
  /\ tresult' = [tresult EXCEPT ![t] = MDPickClasses(classes, timg[t], tscores[t])]
  /\ pc' = [pc EXCEPT ![t] = "done"]
  /\ UNCHANGED <<object, latest, timg, ti, tscores, overlapped>>

\* The caller has taken the result; the thread may call again.
Return(t) ==
  /\ pc[t] = "done"
  /\ pc' = [pc EXCEPT ![t] = "idle"]
  /\ timg' = [timg EXCEPT ![t] = NoImage]
  /\ ti' = [ti EXCEPT ![t] = 0]
  /\ tscores' = [tscores EXCEPT ![t] = <<>>]
  /\ tresult' = [tresult EXCEPT ![t] = NoMap]
  /\ overlapped' = [overlapped EXCEPT ![t] = FALSE]
  /\ UNCHANGED <<object, latest>>

NextConc ==
  \/ \E td \in TrainingSets : Train(td)
  \/ \E t \in Threads : \E b \in BandCounts : \E img \in ThreadImages(b) : Start(t, img)
  \/ \E t \in Threads : Assign(t)
  \/ \E t \in Threads : Score(t)
  \/ \E t \in Threads : Pick(t)
  \/ \E t \in Threads : Return(t)

SpecConc == Init /\ [][NextConc]_vars

\* ------------------------------------------------------------ properties
\* A class without its cached statistics, as train received it.
StripStats(cl) == [cl EXCEPT !.stats = None]

\* {c.index : c in self.classes}
Indices(cls) == {cls[i].index : i \in 1..Len(cls)}

\* The score classify_spectrum maximises for the class at position i: the
\* log-posterior, or the negated squared distance.
Merit(i, x) ==
  IF kind = "Gaussian" THEN GProb2(classes[i], x)
  ELSE 0 - MDist2(background[1], classes[i], x)

\* The position in self.classes of the first class of greatest merit for x.
IsFirstBest(i, x) ==
  /\ \A j \in 1..Len(classes) : Merit(j, x) <= Merit(i, x)
  /\ \A j \in 1..(i - 1) : Merit(j, x) < Merit(i, x)

\* The classes of the latest training data that reach the threshold ms.
AtLeast(ms) == SelectSeq(training.classes, LAMBDA cl : cl.size >= ms)

\* C1: on a trained classifier (with a retained class, so that classification
\* is defined), classify_image on the batched path and on the per-pixel path
\* both complete and return the same class map, for any image.
C1_PathsAgree ==
  (trained /\ classes # <<>> /\ op = "classify_image") =>
    LET b == ClassifyImageOf(kind, TRUE, classes, background, image)
        l == ClassifyImageOf(kind, FALSE, classes, background, image)
    IN /\ b.err = "none"
       /\ l.err = "none"
       /\ \A p \in Positions(image) : b.map[p[1]][p[2]] = l.map[p[1]][p[2]]

\* C2: after train, self.classes is exactly the subsequence, in iteration
\* order, of the classes of the training data of that call whose size() is at
\* least self.min_samples.
C2_ThresholdFiltering ==
  trained =>
    [i \in 1..Len(classes) |-> StripStats(classes[i])] = AtLeast(min_samples[1])

\* C2 witness: a retraining on data of another band count kept a class whose
\* size is exactly the threshold and dropped another class.
C2_Witness ==
  /\ trained
  /\ first_nbands # Some(training.nbands)
  /\ Len(classes) >= 1
  /\ Len(classes) < Len(training.classes)
  /\ \E i \in 1..Len(classes) : classes[i].size = min_samples[1]

\* C3: with at least one retained class, classify_spectrum returns the index of
\* the first class, in self.classes order, whose score is the maximum
\* (GaussianClassifier) or whose squared distance is the minimum
\* (MahalanobisDistanceClassifier).
C3_FirstOptimumWins ==
  (op = "classify_spectrum" /\ classes # <<>>) =>
    \E i \in 1..Len(classes) : IsFirstBest(i, spectrum) /\ label = classes[i].index

\* C3 witness: two classes tie on the optimum and the one returned is the
\* earlier in training order although its index is the larger.
C3_Witness ==
  /\ op = "classify_spectrum"
  /\ \E i, j \in 1..Len(classes) :
       /\ i < j
       /\ IsFirstBest(i, spectrum)
       /\ Merit(j, spectrum) = Merit(i, spectrum)
       /\ classes[i].index > classes[j].index
       /\ label = classes[i].index

C5_BackgroundIsWeightedSum ==
  (kind = "Mahalanobis" /\ trained) =>
    /\ background # None
    /\ \A r, c \in 1..training.nbands :
         background[1].cov[r][c] =
           SumSeq([i \in 1..Len(classes) |->
                     classes[i].stats[1].nsamples * classes[i].stats[1].cov[r][c]])

\* C6: a train call in which every class is below min_samples completes
\* normally and leaves an empty self.classes, for both classifiers.
C6_EmptyTrainingCompletes ==
  (op = "train" /\ \A i \in 1..Len(training.classes) :
                     training.classes[i].size < min_samples[1]) =>
    (err = "none" /\ trained /\ classes = <<>>)

\* self.background.cov, None when there is no background
BackgroundCov(bg) == IF bg = None THEN None ELSE bg[1].cov

\* C7: on a MahalanobisDistanceClassifier no classification call changes
\* background.cov, self.classes or min_samples, and classify_spectrum and the
\* per-pixel classify_image leave the whole background as it is: only the
\* batched classify_image writes background.mean.
C7_ClassificationFrame ==
  [][(kind = "Mahalanobis" /\ op' \in {"classify_spectrum", "classify_image"}) =>
       /\ classes' = classes
       /\ min_samples' = min_samples
       /\ BackgroundCov(background') = BackgroundCov(background)
       /\ (op' = "classify_spectrum" \/ path' = "loop") => background' = background]_vars

\* C7 witness: a batched classify_image over two classes has left the mean of
\* the last class in background.mean.
C7_Witness ==
  /\ kind = "Mahalanobis"
  /\ op = "classify_image"
  /\ path = "batched"
  /\ Len(classes) >= 2
  /\ background[1].mean = Some(classes[Len(classes)].stats[1].mean)
  /\ background[1].mean # Some(classes[1].stats[1].mean)

\* What a batched classify_image returns when it runs alone.
AloneMap(img) == MDClassifyImageBatched(classes, background, img).map

\* The layer of class i was computed against the mean of class i.
OwnLayer(t, i) ==
  \A p \in Positions(timg[t]) :
    tscores[t][i][p[1]][p[2]] = MDist2(background[1], classes[i], PixelAt(timg[t], p[1], p[2]))

\* C8: a batched classify_image that no other call overlaps computes every
\* score layer against the mean of its own class and returns the map it
\* returns when run alone (the unsafe interleaving is the witness).
C8_SequentialCallsAgree ==
  \A t \in Threads :
    (pc[t] = "done" /\ ~overlapped[t]) =>
      /\ \A i \in 1..Len(classes) : OwnLayer(t, i)
      /\ tresult[t] = AloneMap(timg[t])

\* C8 witness: of two overlapping calls, one computed a layer against another
\* class's mean and returned a map that differs from the one it returns alone.
C8_Witness ==
  \E t \in Threads :
    /\ pc[t] = "done"
    /\ overlapped[t]
    /\ \E i \in 1..Len(classes) : ~OwnLayer(t, i)
    /\ tresult[t] # AloneMap(timg[t])

\* C9: the per-pixel classify_image completes for every image with at least
\* one pixel, calls classify_spectrum once per pixel and returns at every
\* position the label classify_spectrum returns for that pixel.
C9_LoopCompletes ==
  (op = "classify_image" /\ path = "loop" /\ NumElements(image) >= 1) =>
    /\ err = "none"
    /\ ncalls = NumElements(image)
    /\ \A p \in Positions(image) :
         class_map[p[1]][p[2]] = ClassifySpectrumOf(kind, classes, background,
                                           PixelAt(image, p[1], p[2]))

\* C10 as stated: with no min_samples supplied every train call uses the band
\* count of its own training data as the threshold; a supplied min_samples is
\* used unchanged.
C10_ThresholdOfEachCall ==
  trained =>
    min_samples = (IF supplied \in {None, Some(0)} THEN Some(training.nbands) ELSE supplied)

\* C10 amended: with no min_samples supplied, or 0 supplied, every train call
\* uses the band count of the training data of the first train call as the
\* threshold; a supplied min_samples other than 0 is used unchanged.
C10_ThresholdOfFirstCall ==
  trained =>
    /\ min_samples = (IF supplied \in {None, Some(0)} THEN first_nbands ELSE supplied)
    /\ [i \in 1..Len(classes) |-> StripStats(classes[i])] =
         AtLeast(IF supplied \in {None, Some(0)} THEN first_nbands[1] ELSE supplied[1])

\* C10 witness: a retraining with no min_samples supplied, on data whose band
\* count differs from the first training's.
C10_Witness ==
  /\ op = "train"
  /\ supplied = None
  /\ first_nbands # Some(training.nbands)
  /\ min_samples = first_nbands

====
